---- MODULE Spec2Model ----
(***************************************************************************)
(* Model of the nutrition agent's chat endpoint (src/main.py, chat) and    *)
(* of the agent graph it streams (src/app/agent/workflow.py,               *)
(* build_workflow): the checkpointed message history of a thread, the      *)
(* agent node (llm_call), the routing function (decision_node), the tool   *)
(* node running web_search_nutrition (src/app/tools/websearch.py), and the *)
(* loop of chat that turns the streamed states into a ChatResponse.        *)
(*                                                                         *)
(* chat is an async handler without an await, so one chat request runs to  *)
(* its return before the next one starts; a graph step (one node and the   *)
(* checkpoint written after it) is one action.                             *)
(***************************************************************************)
EXTENDS Integers, Sequences, FiniteSets, TLC

VARIABLES
    checkpoints,      \* MemorySaver: thread id -> the thread's stored "messages"
    pc,               \* where the chat handler is: idle, agent, tool, returned
    req,              \* the ChatRequest being handled
    config,           \* config["configurable"] built by chat
    response_content, \* chat's local response_content
    response,         \* what chat returned: status, kind and content
    nextId,           \* the next fresh message id
    modelCalls,       \* Model Gateway calls made in this turn
    toolInvocations,  \* tool invocations made in this turn
    histAtStart,      \* the thread's history when this turn started
    llm_input,        \* the messages of the last llm_with_tool.invoke, after the system prompt
    model_error,      \* what the last llm_with_tool.invoke raised, if it raised
    lastProvider,     \* the search provider's outcomes in the last tool step
    pending,          \* chat requests sent and not yet handled: for each, whether
                      \* a chat handler was running when it was sent
    overlapped,       \* whether this turn's request was sent while a handler was running
    turnFirst         \* the id of the first message of each turn, in the order started

chatVars == << checkpoints, pc, req, config, response_content, response, nextId,
               modelCalls, toolInvocations, histAtStart, llm_input,
               model_error, lastProvider, pending, overlapped, turnFirst >>

VARIABLES
    meals_json,       \* app/tools/meals.json: whether it exists, parses, and its records
    uploads_dir,      \* the files of uploads/meals
    tmp_files,        \* the temporary files upload_image created and has not removed
    awaiting,         \* the upload handlers suspended in "await file.read()"
    uploadCount,      \* upload requests received so far
    upload_response,  \* what upload_image answered last
    lastUpload,       \* the handler that answered last: its request, faults, id and path
    succeeded         \* the ids upload_image has answered "success" for

uploadVars == << meals_json, uploads_dir, tmp_files, awaiting, uploadCount,
                 upload_response, lastUpload, succeeded >>

vars == << chatVars, uploadVars >>

----------------------------------------------------------------------------
(* Bounds of the model. *)

(* The longest thread history explored: a request is taken, and the stub   *)
(* model asks for tools, only while the messages that follow still fit.    *)
MaxMessages == 7

(* The most chat requests that wait for the event loop at one time. *)
MaxPending == 1

(* The most upload requests received in a run. *)
MaxUploads == 2

(* The iteration cap the specification asks for; the source reads none. *)
IterationCap == 2

----------------------------------------------------------------------------
(* Values. *)

NoId == 0

SessionKeys == {"k1", "k2"}

Some(v) == [some |-> TRUE, val |-> v]
NoneStr == [some |-> FALSE, val |-> ""]
NoneList == [some |-> FALSE, val |-> << >>]

ChatMessage(role, content) == [role |-> role, content |-> content]

Request(key, message, messages, history) ==
    [key |-> key, message |-> message, messages |-> messages, history |-> history]

(* The requests explored: a message alone, a message with an empty list, a *)
(* list with a role-tagged history, and two requests without any content.  *)
ChatRequest ==
    { Request("k1", Some("hello"), NoneList, NoneList),
      Request("k2", Some("hello"), Some(<< >>), NoneList),
      Request("k1", NoneStr, Some(<<"rice", "dal">>),
              Some(<<ChatMessage("user", "old"), ChatMessage("assistant", "ok")>>)),
      Request("k2", NoneStr, NoneList, NoneList),
      Request("k1", Some(""), Some(<< >>), NoneList) }

NoRequest == Request("k1", NoneStr, NoneList, NoneList)

HumanMessage(content) ==
    [role |-> "human", content |-> content, tool_calls |-> << >>,
     tool_call_id |-> NoId, id |-> NoId]

AIMessage(content) ==
    [role |-> "ai", content |-> content, tool_calls |-> << >>,
     tool_call_id |-> NoId, id |-> NoId]

ToolMessage(content, call_id) ==
    [role |-> "tool", content |-> content, tool_calls |-> << >>,
     tool_call_id |-> call_id, id |-> NoId]

ToolCall(call_id, query) ==
    [id |-> call_id, name |-> "web_search_nutrition", query |-> query]

Last(s) == s[Len(s)]

IsPrefix(s, t) == Len(s) <= Len(t) /\ SubSeq(t, 1, Len(s)) = s

Contents(s) == [i \in 1..Len(s) |-> [role |-> s[i].role, content |-> s[i].content]]

----------------------------------------------------------------------------
(* ChatRequest: the validator and the combined text. *)

Truthy(o) == o.some /\ Len(o.val) > 0

RECURSIVE Join(_)
Join(ss) ==
    IF Len(ss) = 0 THEN ""
    ELSE IF Len(ss) = 1 THEN ss[1]
    ELSE ss[1] \o "\n\n" \o Join(Tail(ss))

(* A validator that asks for both fields. *)
ensure_message_both(r) == Truthy(r.message) /\ Truthy(r.messages)

ensure_message(r) == Truthy(r.message) \/ Truthy(r.messages)

combined_message(r) ==
    IF Truthy(r.message) THEN r.message.val
    ELSE IF Truthy(r.messages) THEN Join(r.messages.val)
    ELSE ""

----------------------------------------------------------------------------
(* The session a request runs on. *)

get_user_id == "user_1a2b3c4d"

thread_id(r) == get_user_id \o "_api_session"

ThreadIds == {thread_id(r) : r \in ChatRequest}

----------------------------------------------------------------------------
(* add_messages, the reducer of AgentState.messages: a message of the      *)
(* update whose id is already in the list replaces that message in place,  *)
(* any other message is appended; a message without an id gets a fresh one.*)

RECURSIVE AssignIds(_, _)
AssignIds(right, n) ==
    IF right = << >> THEN << >>
    ELSE IF Head(right).id = NoId
         THEN <<[Head(right) EXCEPT !.id = n]>> \o AssignIds(Tail(right), n + 1)
         ELSE <<Head(right)>> \o AssignIds(Tail(right), n)

RECURSIVE FreshCount(_)
FreshCount(right) ==
    IF right = << >> THEN 0
    ELSE (IF Head(right).id = NoId THEN 1 ELSE 0) + FreshCount(Tail(right))

RECURSIVE Merge(_, _)
Merge(left, right) ==
    IF right = << >> THEN left
    ELSE LET m == Head(right)
             hit == {i \in 1..Len(left) : left[i].id = m.id}
         IN  IF hit # {}
             THEN Merge([left EXCEPT ![CHOOSE i \in hit : TRUE] = m], Tail(right))
             ELSE Merge(Append(left, m), Tail(right))

(* A reducer that keeps only the update, as a plain "messages" key would. *)
add_messages_overwrite(left, right, n) == AssignIds(right, n)

add_messages(left, right, n) == Merge(left, AssignIds(right, n))

----------------------------------------------------------------------------
(* web_search_nutrition: the provider returns a list of results, possibly  *)
(* empty, or raises.                                                       *)

Result(title, url, content, score) ==
    [title |-> title, url |-> url, content |-> content, score |-> score]

Get(field, default) == IF field.some THEN field.val ELSE default

ProviderOutcomes ==
    { [kind |-> "results", results |-> << >>, error |-> ""],
      [kind |-> "results", error |-> "",
       results |-> << Result(Some("Oats"), Some("u1"), Some("fiber"), 9),
                      Result(NoneStr, NoneStr, NoneStr, 0) >>],
      [kind |-> "raise", results |-> << >>, error |-> "timeout"] }

RECURSIVE FormatResults(_, _)
FormatResults(results, idx) ==
    IF results = << >> THEN ""
    ELSE LET result == Head(results)
         IN  ToString(idx) \o ". " \o Get(result.title, "No title") \o "\n"
             \o "   URL: " \o Get(result.url, "No URL") \o "\n"
             \o "   Content: " \o Get(result.content, "No content") \o "\n"
             \o (IF result.score # 0
                 THEN "   Relevance Score: " \o ToString(result.score) \o "\n"
                 ELSE "")
             \o "\n"
             \o FormatResults(Tail(results), idx + 1)

(* A search tool that answers "no results" when the provider raises. *)
web_search_swallow(query, provider) ==
    IF provider.kind = "raise" \/ provider.results = << >>
    THEN "No results found for the query."
    ELSE "Search Results for: '" \o query \o "'\n\n"
         \o FormatResults(provider.results, 1)

web_search_nutrition(query, provider) ==
    IF provider.kind = "raise"
    THEN "Error performing web search: " \o provider.error
    ELSE IF provider.results = << >>
    THEN "No results found for the query."
    ELSE "Search Results for: '" \o query \o "'\n\n"
         \o FormatResults(provider.results, 1)

----------------------------------------------------------------------------
(* The graph: llm_call, decision_node and the tool node.                   *)

(* What the stub model may answer: a final answer, a request for n tools,  *)
(* or a failure of the call.                                               *)
AnswerTexts == {"", "Eat more fiber."}
Queries == {"oats calories"}
ModelErrors == { [kind |-> "Exception", text |-> "rate limit"],
                 [kind |-> "ImportError", text |-> "No module named 'openai'"] }

AIResponse(content, n, rid) ==
    [AIMessage(content) EXCEPT
        !.id = rid,
        !.tool_calls = [i \in 1..n |-> ToolCall(rid * 10 + i, CHOOSE q \in Queries : TRUE)]]

llm_messages(state) == state

llm_call(state, answer) == state \o <<answer>>

(* A routing function with its two answers exchanged. *)
decision_node_inverted(state) ==
    IF Last(state).tool_calls # << >> THEN "end" ELSE "continue"

decision_node(state) ==
    IF Last(state).tool_calls # << >> THEN "continue" ELSE "end"

(* A tool node that appends the results in the reverse of the request order. *)
tool_node_reversed(state, outs) ==
    LET calls == Last(state).tool_calls
        n == Len(calls)
    IN  [i \in 1..n |->
            ToolMessage(web_search_nutrition(calls[n + 1 - i].query, outs[n + 1 - i]),
                        calls[n + 1 - i].id)]

(* A tool node that runs only the first request of the answer. *)
tool_node_first_only(state, outs) ==
    LET calls == Last(state).tool_calls
    IN  [i \in 1..(IF Len(calls) > 0 THEN 1 ELSE 0) |->
            ToolMessage(web_search_nutrition(calls[i].query, outs[i]), calls[i].id)]

(* A tool node that does not copy the request identifier into the result. *)
tool_node_no_id(state, outs) ==
    LET calls == Last(state).tool_calls
    IN  [i \in 1..Len(calls) |->
            ToolMessage(web_search_nutrition(calls[i].query, outs[i]), NoId)]

tool_node(state, outs) ==
    LET calls == Last(state).tool_calls
    IN  [i \in 1..Len(calls) |->
            ToolMessage(web_search_nutrition(calls[i].query, outs[i]), calls[i].id)]

----------------------------------------------------------------------------
(* chat. *)

Apology ==
    "I apologize, but I couldn't generate a response. "
    \o "Please try rephrasing your question."

history_messages(r) ==
    IF Truthy(r.history)
    THEN [i \in 1..Len(r.history.val) |->
            IF r.history.val[i].role = "user"
            THEN HumanMessage(r.history.val[i].content)
            ELSE AIMessage(r.history.val[i].content)]
    ELSE << >>

input_messages(r) == history_messages(r) \o <<HumanMessage(combined_message(r))>>

(* A loop body that keeps the previous content when the new one is empty. *)
stream_value_skip_empty(prev, state) ==
    IF Last(state).content # "" THEN Last(state).content ELSE prev

stream_value(prev, state) == Last(state).content

chat_return(content) == IF content = "" THEN Apology ELSE content

(* An except clause that hides what was raised. *)
chat_except_generic(e) == "**Error:** internal error"

chat_except(e) ==
    IF e.kind = "ImportError"
    THEN "**Configuration Error:** " \o e.text
    ELSE "**Error:** " \o e.text

(* chat is a coroutine without an await and stream is a blocking call, so  *)
(* the event loop starts the handler of another request only once the      *)
(* running handler has returned.                                           *)
(* A handler that awaits the tool node, letting the event loop start       *)
(* another handler meanwhile.                                              *)
loop_free_at_tool(p) == p \in {"idle", "returned", "tool"}

loop_free(p) == p \in {"idle", "returned"}

NoError == [kind |-> "none", text |-> ""]

NoResponse == [status |-> 0, kind |-> "none", content |-> ""]

----------------------------------------------------------------------------
(* upload_image: file names, the record file and the image analysis.       *)

(* A file name is its sequence of characters. *)
LowerChar(c) ==
    CASE c = "A" -> "a" [] c = "P" -> "p" [] c = "N" -> "n" [] c = "G" -> "g"
      [] OTHER -> c

lower(name) == [i \in 1..Len(name) |-> LowerChar(name[i])]

endswith(name, suffix) ==
    /\ Len(name) >= Len(suffix)
    /\ SubSeq(name, Len(name) - Len(suffix) + 1, Len(name)) = suffix

allowed_extensions ==
    { <<".", "p", "n", "g">>, <<".", "j", "p", "g">>, <<".", "j", "p", "e", "g">> }

extension_ok(filename) ==
    \E suffix \in allowed_extensions : endswith(lower(filename), suffix)

(* os.path.splitext(name)[1]: from the last dot on, unless only dots precede it. *)
splitext(name) ==
    LET dots == {i \in 1..Len(name) : name[i] = "."}
        last == IF dots = {} THEN 0 ELSE CHOOSE i \in dots : \A j \in dots : j <= i
    IN  IF last > 0 /\ \E j \in 1..(last - 1) : name[j] # "."
        THEN SubSeq(name, last, Len(name))
        ELSE << >>

RECURSIVE Str(_)
Str(chars) == IF chars = << >> THEN "" ELSE Head(chars) \o Str(Tail(chars))

UploadFile(filename, decodes, description) ==
    [filename |-> filename, decodes |-> decodes, description |-> description]

(* The uploads explored: two images, an image whose bytes do not decode,   *)
(* and a text file.                                                        *)
UploadRequests ==
    { UploadFile(<<"a", ".", "j", "p", "g">>, TRUE, ""),
      UploadFile(<<"b", ".", "j", "p", "e", "g">>, TRUE, "lunch"),
      UploadFile(<<"A", ".", "P", "N", "G">>, FALSE, ""),
      UploadFile(<<"a", ".", "t", "x", "t">>, TRUE, "") }

(* What the environment does to one handler: whether writing the temporary *)
(* file, moving it, the vision call and the rewrite of the record file     *)
(* succeed; the rewrite fails in open() or, the file truncated, in dump.   *)
(* A step that fails ends the handler, so the later steps are left "ok".   *)
Faults ==
    { f \in [save : {"ok", "fail"}, move : {"ok", "fail"},
             vision : {"ok", "raise"}, write : {"ok", "open_fails", "dump_fails"}] :
        /\ f.save = "fail" => f.move = "ok"
        /\ f.save = "fail" \/ f.move = "fail" => f.vision = "ok" /\ f.write = "ok" }

NoFaults == [save |-> "ok", move |-> "ok", vision |-> "ok", write |-> "ok"]

now == "20261101_120000"

MealsFile(exists, parses, data) == [exists |-> exists, parses |-> parses, data |-> data]

Meal(id, name, description, image_path, analysis) ==
    [id |-> id, name |-> name, description |-> description,
     image_path |-> image_path, upload_date |-> now, user_id |-> get_user_id,
     analysis_response |-> analysis]

(* The record files a run starts from: none, and one whose records are not *)
(* in the order of their ids.                                              *)
InitialMealsFiles ==
    { MealsFile(FALSE, TRUE, << >>),
      MealsFile(TRUE, TRUE,
                << Meal(3, "c.jpg", "No description provided",
                        "uploads/meals/meals_3_20261031_090000.jpg", [error |-> "quota"]),
                   Meal(1, "a.jpg", "No description provided",
                        "uploads/meals/meals_1_20261030_090000.jpg", [error |-> "quota"]) >>) }

max(S) == CHOOSE x \in S : \A y \in S : y <= x

(* An id taken from the last record of the file. *)
new_id_after_last(meals_data) ==
    IF meals_data = << >> THEN 1 ELSE meals_data[Len(meals_data)].id + 1

new_id(meals_data) ==
    max({meals_data[i].id : i \in 1..Len(meals_data)} \cup {0}) + 1

final_image_path(id, filename) ==
    "uploads/meals/meals_" \o ToString(id) \o "_" \o now \o Str(splitext(filename))

(* A validation that accepts every file. *)
validate_image_any(file) == TRUE

validate_image(file) == file.decodes

question(description) ==
    IF description # "" THEN description \o " with this image"
    ELSE "Analyze this meal image"

(* analyze_meal_image: the analysis, or what it raises. *)
analyze_meal_image(image_path, user_question, exists, vision) ==
    IF ~exists
    THEN [raised |-> TRUE, error |-> "Image not found: " \o image_path]
    ELSE IF vision = "raise"
    THEN [raised |-> TRUE,
          error |-> "OpenAI Vision API analysis failed: " \o "quota exceeded"]
    ELSE [raised |-> FALSE,
          value |-> [analysis |-> "rice and dal, about 450 kcal", model |-> "gpt-4o",
                     tokens_used |-> 900, image_path |-> image_path,
                     user_question |-> user_question]]

(* An error result that does not say what was raised. *)
error_result_blank(e) == [error |-> ""]

error_result(e) == [error |-> e]

(* A failure path that leaves the moved image where it is. *)
remove_final_skipped(files, path) == files

remove_final(files, path) == files \ {path}

(* HTTPException(status_code, detail): the request fails with that code. *)
HTTPException(status_code, detail) ==
    [status_code |-> status_code, status |-> "", detail |-> detail,
     document_path |-> ""]

(* The UploadResponse the handler returns, sent with code 200; the model   *)
(* class declares no analysis field, so the one passed to it is dropped.   *)
UploadResponse(status, detail, document_path, analysis) ==
    [status_code |-> 200, status |-> status, detail |-> detail,
     document_path |-> document_path]

NoUploadResponse == HTTPException(0, "")

(* upload_image from the return of "await file.read()" to its answer, on   *)
(* the files as they are then: the files afterwards and the answer.        *)
upload_image(h, f, meals, uploads, tmps) ==
    LET file == h.file
        meals_data == IF meals.exists THEN meals.data ELSE << >>
        id == new_id(meals_data)
        final == final_image_path(id, file.filename)
        moved == uploads \cup {final}
        analysis == analyze_meal_image(final, question(file.description),
                                       final \in moved, f.vision)
        analysis_result == IF analysis.raised THEN error_result(analysis.error)
                           ELSE analysis.value
        new_meals == Meal(id, Str(file.filename),
                          IF file.description # "" THEN file.description
                          ELSE "No description provided",
                          final, analysis_result)
        out(m, u, t, r, i, p) ==
            [meals |-> m, uploads |-> u, tmps |-> t, response |-> r,
             new_id |-> i, final |-> p]
    IN  IF f.save = "fail"
        THEN out(meals, uploads, tmps,
                 HTTPException(500, "Failed to save upload: disk error"), 0, "")
        ELSE IF ~validate_image(file)
        THEN out(meals, uploads, tmps \ {h.tmp},
                 HTTPException(400, "Invalid image file: cannot identify image file"),
                 0, "")
        ELSE IF meals.exists /\ ~meals.parses
        THEN out(meals, uploads, tmps,
                 HTTPException(500, "Failed to save meal data: Expecting value"),
                 0, "")
        ELSE IF f.move = "fail"
        THEN out(meals, remove_final(uploads, final), tmps,
                 HTTPException(500, "Failed to save meal data: disk error"),
                 id, final)
        ELSE IF f.write = "open_fails"
        THEN out(meals, remove_final(moved, final), tmps \ {h.tmp},
                 HTTPException(500, "Failed to save meal data: permission denied"),
                 id, final)
        ELSE IF f.write = "dump_fails"
        THEN out(MealsFile(TRUE, FALSE, << >>), remove_final(moved, final),
                 tmps \ {h.tmp},
                 HTTPException(500, "Failed to save meal data: disk error"),
                 id, final)
        ELSE out(MealsFile(TRUE, TRUE, Append(meals_data, new_meals)), moved,
                 tmps \ {h.tmp},
                 UploadResponse("success",
                     "Meal image uploaded and analyzed successfully. ID: " \o ToString(id),
                     final, analysis_result),
                 id, final)

NoUpload == [n |-> 0, file |-> UploadFile(<< >>, FALSE, ""), faults |-> NoFaults,
             new_id |-> 0, final |-> "", resumed |-> FALSE]

ChatInit ==
    /\ checkpoints = [t \in ThreadIds |-> << >>]
    /\ pc = "idle"
    /\ req = NoRequest
    /\ config = [thread_id |-> "", user_id |-> ""]
    /\ response_content = ""
    /\ response = NoResponse
    /\ nextId = 1
    /\ modelCalls = 0
    /\ toolInvocations = 0
    /\ histAtStart = << >>
    /\ llm_input = << >>
    /\ model_error = NoError
    /\ lastProvider = << >>
    /\ pending = << >>
    /\ overlapped = FALSE
    /\ turnFirst = << >>

UploadInit(files) ==
    /\ meals_json \in files
    /\ uploads_dir = {}
    /\ tmp_files = {}
    /\ awaiting = {}
    /\ uploadCount = 0
    /\ upload_response = NoUploadResponse
    /\ lastUpload = NoUpload
    /\ succeeded = {}

Init == ChatInit /\ UploadInit({MealsFile(FALSE, TRUE, << >>)})

InitUpload == ChatInit /\ UploadInit(InitialMealsFiles)

(* A client sends a chat request; it waits until the event loop is free. *)
Arrive ==
    /\ Len(pending) < MaxPending
    /\ pending' = Append(pending, pc \in {"agent", "tool"})
    /\ UNCHANGED << checkpoints, pc, req, config, response_content, response,
                    nextId, modelCalls, toolInvocations, histAtStart, llm_input,
                    model_error, lastProvider, overlapped, turnFirst >>
    /\ UNCHANGED uploadVars

(* A request that fails ensure_message is answered 422 before chat runs. *)
Reject(r) ==
    /\ loop_free(pc)
    /\ pending # << >>
    /\ pending' = Tail(pending)
    /\ ~ensure_message(r)
    /\ req' = r
    /\ pc' = "returned"
    /\ response' = [status |-> 422, kind |-> "InvalidRequest",
                    content |-> "Either 'message' or 'messages' must be provided."]
    /\ UNCHANGED << checkpoints, config, response_content, nextId, modelCalls,
                    toolInvocations, histAtStart, llm_input, model_error,
                    lastProvider, overlapped, turnFirst >>
    /\ UNCHANGED uploadVars

(* chat up to the first streamed value: the input is merged into the       *)
(* thread's checkpoint and the merged state is the first value.            *)
Chat(r) ==
    /\ loop_free(pc)
    /\ pending # << >>
    /\ pending' = Tail(pending)
    /\ overlapped' = Head(pending)
    /\ turnFirst' = Append(turnFirst, nextId)
    /\ ensure_message(r)
    /\ LET tid == thread_id(r)
           messages == input_messages(r)
           state == add_messages(checkpoints[tid], messages, nextId)
       IN  /\ Len(checkpoints[tid]) + Len(messages) + 1 <= MaxMessages
           /\ req' = r
           /\ config' = [thread_id |-> tid, user_id |-> get_user_id]
           /\ histAtStart' = checkpoints[tid]
           /\ checkpoints' = [checkpoints EXCEPT ![tid] = state]
           /\ nextId' = nextId + FreshCount(messages)
           /\ response_content' = stream_value("", state)
    /\ pc' = "agent"
    /\ response' = NoResponse
    /\ modelCalls' = 0
    /\ toolInvocations' = 0
    /\ llm_input' = << >>
    /\ model_error' = NoError
    /\ lastProvider' = << >>
    /\ UNCHANGED uploadVars

(* The agent node answers; decision_node routes to the tool node or to END,*)
(* where chat leaves its loop and returns.                                 *)
AgentAnswers(content, n) ==
    /\ pc = "agent"
    /\ n > 0 => Len(checkpoints[config.thread_id]) + n + 2 <= MaxMessages
    /\ LET tid == config.thread_id
           old == checkpoints[tid]
           answer == AIResponse(content, n, nextId)
           state == add_messages(old, llm_call(old, answer), nextId + 1)
       IN  /\ llm_input' = llm_messages(old)
           /\ checkpoints' = [checkpoints EXCEPT ![tid] = state]
           /\ nextId' = nextId + 1
           /\ response_content' = stream_value(response_content, state)
           /\ IF decision_node(state) = "continue"
              THEN /\ pc' = "tool"
                   /\ response' = response
              ELSE /\ pc' = "returned"
                   /\ response' = [status |-> 200, kind |-> "DONE",
                                   content |-> chat_return(response_content')]
    /\ modelCalls' = modelCalls + 1
    /\ UNCHANGED << req, config, toolInvocations, histAtStart, model_error,
                    lastProvider, pending, overlapped, turnFirst >>
    /\ UNCHANGED uploadVars

(* The Model Gateway call raises: stream raises and chat's except clause   *)
(* returns the error as the response.                                      *)
AgentFails(e) ==
    /\ pc = "agent"
    /\ llm_input' = llm_messages(checkpoints[config.thread_id])
    /\ modelCalls' = modelCalls + 1
    /\ model_error' = e
    /\ pc' = "returned"
    /\ response' = [status |-> 200, kind |-> "ERROR", content |-> chat_except(e)]
    /\ UNCHANGED << checkpoints, req, config, response_content, nextId,
                    toolInvocations, histAtStart, lastProvider, pending,
                    overlapped, turnFirst >>
    /\ UNCHANGED uploadVars

(* The tool node runs every tool call of the last message. *)
ToolStep ==
    /\ pc = "tool"
    /\ \E outs \in [1..Len(Last(checkpoints[config.thread_id]).tool_calls)
                        -> ProviderOutcomes] :
       LET tid == config.thread_id
           old == checkpoints[tid]
           results == tool_node(old, outs)
           state == add_messages(old, results, nextId)
       IN  /\ checkpoints' = [checkpoints EXCEPT ![tid] = state]
           /\ nextId' = nextId + FreshCount(results)
           /\ response_content' = stream_value(response_content, state)
           /\ toolInvocations' = toolInvocations + Len(outs)
           /\ lastProvider' = outs
    /\ pc' = "agent"
    /\ UNCHANGED << req, config, response, modelCalls, histAtStart, llm_input,
                    model_error, pending, overlapped, turnFirst >>
    /\ UNCHANGED uploadVars

(* upload_image answers 400 for a name without an image extension. *)
UploadRejected(file) ==
    /\ uploadCount < MaxUploads
    /\ ~extension_ok(file.filename)
    /\ uploadCount' = uploadCount + 1
    /\ upload_response' = HTTPException(400, "Only PNG, JPG, and JPEG images are accepted.")
    /\ lastUpload' = [NoUpload EXCEPT !.n = uploadCount + 1, !.file = file]
    /\ UNCHANGED << meals_json, uploads_dir, tmp_files, awaiting, succeeded >>
    /\ UNCHANGED chatVars

(* upload_image creates its temporary file and awaits the upload's bytes;  *)
(* other handlers run until it resumes.                                    *)
UploadReceive(file) ==
    /\ uploadCount < MaxUploads
    /\ extension_ok(file.filename)
    /\ LET n == uploadCount + 1
           tmp == "tmp" \o ToString(n) \o Str(splitext(file.filename))
       IN  /\ uploadCount' = n
           /\ tmp_files' = tmp_files \cup {tmp}
           /\ awaiting' = awaiting \cup {[n |-> n, file |-> file, tmp |-> tmp]}
    /\ UNCHANGED << meals_json, uploads_dir, upload_response, lastUpload, succeeded >>
    /\ UNCHANGED chatVars

(* The rest of upload_image, which has no await: it runs to its answer. *)
UploadResume(h, f) ==
    /\ h \in awaiting
    /\ LET done == upload_image(h, f, meals_json, uploads_dir, tmp_files)
       IN  /\ meals_json' = done.meals
           /\ uploads_dir' = done.uploads
           /\ tmp_files' = done.tmps
           /\ upload_response' = done.response
           /\ lastUpload' = [n |-> h.n, file |-> h.file, faults |-> f,
                             new_id |-> done.new_id, final |-> done.final,
                             resumed |-> TRUE]
           /\ succeeded' = IF done.response.status = "success"
                           THEN succeeded \cup {done.new_id}
                           ELSE succeeded
    /\ awaiting' = awaiting \ {h}
    /\ UNCHANGED uploadCount
    /\ UNCHANGED chatVars

Next ==
    \/ Arrive
    \/ \E r \in ChatRequest : Reject(r)
    \/ \E r \in ChatRequest : Chat(r)
    \/ \E content \in AnswerTexts : AgentAnswers(content, 0)
    \/ \E n \in 1..MaxMessages : AgentAnswers("", n)
    \/ \E e \in ModelErrors : AgentFails(e)
    \/ ToolStep

Spec == Init /\ [][Next]_vars

NextUpload ==
    \/ \E file \in UploadRequests : UploadRejected(file)
    \/ \E file \in UploadRequests : UploadReceive(file)
    \/ \E h \in awaiting : \E f \in Faults : UploadResume(h, f)

SpecUpload == InitUpload /\ [][NextUpload]_vars

----------------------------------------------------------------------------
(* The thread of the turn in progress and the part this turn appended.     *)

History == checkpoints[config.thread_id]

TurnBase == Len(histAtStart) + Len(input_messages(req))

InTurn == pc \in {"agent", "tool"} \/ (pc = "returned" /\ response.status = 200)

ToolRequestAnswers ==
    Cardinality({j \in (TurnBase + 1)..Len(History) : History[j].tool_calls # << >>})

(* Every answer of h that carries N tool requests is followed by exactly N *)
(* tool results, each with the identifier of the request at its place.     *)
Answered(h) ==
    \A j \in 1..Len(h) :
        LET N == Len(h[j].tool_calls)
        IN  N > 0 =>
                /\ Len(h) >= j + N
                /\ \A i \in 1..N :
                      /\ h[j + i].role = "tool"
                      /\ h[j + i].tool_call_id = h[j].tool_calls[i].id
                /\ (Len(h) > j + N => h[j + N + 1].role # "tool")

----------------------------------------------------------------------------
(* C1: a turn in which the model has answered with a tool request as often *)
(* as the iteration cap allows has stopped and failed with                 *)
(* ToolLoopExceeded.                                                       *)
C1_StopsAtCap ==
    (InTurn /\ ToolRequestAnswers >= IterationCap)
        => (pc = "returned" /\ response.kind = "ToolLoopExceeded")

(* C2: an answer with N >= 1 tool requests is followed in the history by   *)
(* exactly N tool results in the order of the requests; the only answer    *)
(* still without its results is the one the tool node is about to run, and *)
(* every message list handed to the model has all of them.                 *)
C2_ResultsInRequestOrder ==
    /\ Answered(llm_input)
    /\ \A t \in ThreadIds :
          IF pc = "tool" /\ t = config.thread_id
          THEN /\ Last(checkpoints[t]).tool_calls # << >>
               /\ Answered(SubSeq(checkpoints[t], 1, Len(checkpoints[t]) - 1))
          ELSE Answered(checkpoints[t])

(* Witness of C2: the model is about to be called after a tool step that   *)
(* ran two requests with different outcomes.                               *)
C2_Witness ==
    /\ pc = "agent"
    /\ Len(lastProvider) = 2
    /\ lastProvider[1] # lastProvider[2]
    /\ History[Len(History) - 2].tool_calls # << >>

(* C3: every step leaves the stored history of every thread a prefix of    *)
(* the history after the step.                                             *)
C3_AppendOnly ==
    [][\A t \in ThreadIds : IsPrefix(checkpoints[t], checkpoints'[t])]_vars

(* Witness of C3: a second turn has appended a user message, an answer     *)
(* with a tool request, its result and a final answer to an earlier turn's *)
(* history.                                                                *)
C3_Witness ==
    /\ pc = "returned"
    /\ response.kind = "DONE"
    /\ histAtStart # << >>
    /\ toolInvocations > 0
    /\ Len(History) >= Len(histAtStart) + 4

(* C4: the first Model Gateway call of a turn gets the history stored by   *)
(* earlier turns followed by the new user message.                         *)
C4_FirstCallInput ==
    (InTurn /\ modelCalls = 1)
        => Contents(llm_input)
             = Contents(histAtStart \o <<HumanMessage(combined_message(req))>>)

(* C5: a tool step in which the search provider raises ends with one tool  *)
(* result per failed request carrying the error description, with no       *)
(* response returned, and with the model called next.  (A request that     *)
(* arrives meanwhile only waits.)                                          *)
C5_ToolFailureAbsorbed ==
    [][(pc = "tool" /\ pending' = pending) =>
          /\ pc' = "agent"
          /\ response' = NoResponse
          /\ model_error' = NoError
          /\ LET h == checkpoints'[config.thread_id]
                 N == Len(lastProvider')
             IN  \A i \in 1..N :
                    lastProvider'[i].kind = "raise" =>
                        /\ h[Len(h) - N + i].role = "tool"
                        /\ h[Len(h) - N + i].content
                             = "Error performing web search: " \o lastProvider'[i].error]_vars

(* Witness of C5: the model has been called again after a tool step in     *)
(* which the provider raised.                                              *)
C5_Witness ==
    /\ pc = "returned"
    /\ response.kind = "DONE"
    /\ \E i \in 1..Len(lastProvider) : lastProvider[i].kind = "raise"

(* C6: when a Model Gateway call raises, the same step ends the turn: chat *)
(* returns a normal response whose content is the error text as raised,    *)
(* after its label, nothing is appended, and no model call or tool         *)
(* invocation follows in that turn.                                        *)
C6_ModelFailureEndsTurn ==
    [][/\ (model_error = NoError /\ model_error' # NoError) =>
              /\ pc' = "returned"
              /\ response'.status = 200
              /\ response'.content
                   \in {"**Error:** " \o model_error'.text,
                        "**Configuration Error:** " \o model_error'.text}
              /\ modelCalls' = modelCalls + 1
              /\ toolInvocations' = toolInvocations
              /\ checkpoints' = checkpoints
       /\ model_error # NoError =>
              \/ /\ modelCalls' = modelCalls
                 /\ toolInvocations' = toolInvocations
              \/ /\ pc' = "agent"
                 /\ model_error' = NoError
                 /\ modelCalls' = 0]_vars

(* Witness of C6: the second Model Gateway call of a turn raised, after a  *)
(* tool step.                                                              *)
C6_Witness ==
    /\ pc = "returned"
    /\ model_error # NoError
    /\ modelCalls = 2
    /\ toolInvocations > 0

(* C7, as claimed: a turn that reached DONE returns the content of the     *)
(* last message of the history.                                            *)
C7_OutputIsLastContent ==
    (pc = "returned" /\ response.kind = "DONE")
        => response.content = Last(History).content

(* C7, amended: a turn that reached DONE returns the content of the last   *)
(* message of the history, or the apology text when that content is empty. *)
C7_OutputIsLastContentOrApology ==
    (pc = "returned" /\ response.kind = "DONE")
        => /\ Last(History).content # "" => response.content = Last(History).content
           /\ Last(History).content = "" => response.content = Apology

(* Witness of C7: a turn reached DONE after a tool step, once with a final *)
(* answer that has content.                                                *)
C7_Witness ==
    /\ pc = "returned"
    /\ response.kind = "DONE"
    /\ toolInvocations > 0
    /\ Last(History).role = "ai"
    /\ Last(History).content # ""

(* C8: a turn on an empty history whose first answer carries no tool       *)
(* request reaches DONE after exactly one Model Gateway call and no tool   *)
(* invocation.                                                             *)
C8_OneCallNoTool ==
    ( /\ pc = "returned"
      /\ response.kind = "DONE"
      /\ histAtStart = << >>
      /\ History[TurnBase + 1].tool_calls = << >> )
        => (modelCalls = 1 /\ toolInvocations = 0)

(* Witness of C8: such a turn has reached DONE. *)
C8_Witness ==
    /\ pc = "returned"
    /\ response.kind = "DONE"
    /\ histAtStart = << >>
    /\ req.history = NoneList
    /\ Len(History) = 2
    /\ modelCalls = 1

(* C9: every tool result in a stored history carries the identifier of a   *)
(* tool request of an earlier message of the same history.                 *)
C9_ResultRefersToRequest ==
    \A t \in ThreadIds :
        LET h == checkpoints[t]
        IN  \A j \in 1..Len(h) :
                h[j].role = "tool" =>
                    \E i \in 1..(j - 1) :
                        \E c \in 1..Len(h[i].tool_calls) :
                            h[i].tool_calls[c].id = h[j].tool_call_id

(* Witness of C9: a history holds the results of two tool steps. *)
C9_Witness ==
    \E t \in ThreadIds :
        Cardinality({j \in 1..Len(checkpoints[t]) :
                        checkpoints[t][j].tool_calls # << >>}) >= 2

(* The history a request with session key k reads. *)
SessionHistory(k) == checkpoints[thread_id([NoRequest EXCEPT !.key = k])]

(* C10: a step of a turn leaves the history read under every session key   *)
(* other than the request's unchanged.                                     *)
C10_OtherSessionsUnchanged ==
    [][\A k \in SessionKeys :
          k # req'.key => SessionHistory(k)' = SessionHistory(k)]_vars

----------------------------------------------------------------------------
(* The turn that appended the message with the given id: ids are handed    *)
(* out in the order of the appends.                                        *)
TurnOf(id) ==
    CHOOSE k \in 0..Len(turnFirst) :
        /\ k > 0 => turnFirst[k] <= id
        /\ k < Len(turnFirst) => id < turnFirst[k + 1]

C12_Validation ==
    [][Len(pending') < Len(pending) =>
          /\ (req'.message.some /\ req'.messages = Some(<< >>))
                => (response'.kind # "InvalidRequest" /\ pc' = "agent")
          /\ (~req'.message.some /\ ~req'.messages.some)
                => (response'.status = 422 /\ response'.kind = "InvalidRequest")
          /\ response'.kind = "InvalidRequest"
                => /\ pc' = "returned"
                   /\ checkpoints' = checkpoints
                   /\ turnFirst' = turnFirst
                   /\ llm_input' = llm_input
                   /\ modelCalls' = modelCalls
                   /\ toolInvocations' = toolInvocations]_vars

(* C12, amended: the same, for a message that is given and not empty. *)
C12_ValidationNonEmpty ==
    [][Len(pending') < Len(pending) =>
          /\ (req'.message.some /\ req'.message.val # "" /\ req'.messages = Some(<< >>))
                => (response'.kind # "InvalidRequest" /\ pc' = "agent")
          /\ (~req'.message.some /\ ~req'.messages.some)
                => (response'.status = 422 /\ response'.kind = "InvalidRequest")
          /\ response'.kind = "InvalidRequest"
                => /\ pc' = "returned"
                   /\ checkpoints' = checkpoints
                   /\ turnFirst' = turnFirst
                   /\ llm_input' = llm_input
                   /\ modelCalls' = modelCalls
                   /\ toolInvocations' = toolInvocations]_vars

(* Witness of C12: after a turn, a request with neither field has been     *)
(* answered InvalidRequest, and earlier a message with an empty list had   *)
(* started that turn.                                                      *)
C12_Witness ==
    /\ pc = "returned"
    /\ response.kind = "InvalidRequest"
    /\ ~req.message.some /\ ~req.messages.some
    /\ Len(turnFirst) = 1
    /\ Len(History) = 2
    /\ History[1].content = "hello"

(* C16: when a turn has reached DONE, every tool request of the history    *)
(* has a tool result with its identifier later in the history, and the     *)
(* last message is a model answer without a tool request.                  *)
C16_DoneHistoryComplete ==
    (pc = "returned" /\ response.kind = "DONE") =>
        /\ Last(History).role = "ai"
        /\ Last(History).tool_calls = << >>
        /\ \A j \in 1..Len(History) :
              \A c \in 1..Len(History[j].tool_calls) :
                  \E i \in (j + 1)..Len(History) :
                      /\ History[i].role = "tool"
                      /\ History[i].tool_call_id = History[j].tool_calls[c].id

(* Witness of C16: a turn reached DONE after an answer with two tool       *)
(* requests.                                                               *)
C16_Witness ==
    /\ pc = "returned"
    /\ response.kind = "DONE"
    /\ \E j \in 1..Len(History) : Len(History[j].tool_calls) = 2

----------------------------------------------------------------------------
(* Claims on upload_image.                                                 *)

(* An upload_image handler gives its answer in this step. *)
Answers == lastUpload' # lastUpload

Records(meals) == IF meals.exists /\ meals.parses THEN meals.data ELSE << >>

Ids(meals) == {Records(meals)[i].id : i \in 1..Len(Records(meals))}

(* C13: an upload whose name has no image extension, or whose bytes do not *)
(* decode as an image, is rejected and its handler writes nothing to the   *)
(* content directory and leaves the record file as it was.                 *)
C13_RejectedBeforePersistence ==
    [][ (/\ Answers
         /\ \/ ~extension_ok(lastUpload'.file.filename)
            \/ ~lastUpload'.file.decodes)
        => /\ upload_response'.status # "success"
           /\ lastUpload'.faults.save = "ok" => upload_response'.status_code = 400
           /\ uploads_dir' = uploads_dir
           /\ meals_json' = meals_json ]_vars

(* C13 witness: the file that is no image has been answered with 400      *)
(* while another handler was waiting for its bytes.                        *)
C13_Witness ==
    /\ upload_response.status_code = 400
    /\ lastUpload.resumed
    /\ ~lastUpload.file.decodes
    /\ awaiting # {}
    /\ uploads_dir = {}

(* C14: a successful upload gives its record the largest id of the records *)
(* that were in the file, plus one, in whatever order they were, and 1     *)
(* when there were none.                                                   *)
C14_IdIsMaxPlusOne ==
    [][ (Answers /\ upload_response'.status = "success")
        => LET old == Records(meals_json)
               new == Records(meals_json')
           IN  /\ Len(new) = Len(old) + 1
               /\ SubSeq(new, 1, Len(old)) = old
               /\ \A i \in 1..Len(old) : old[i].id < new[Len(new)].id
               /\ \/ old = << >> /\ new[Len(new)].id = 1
                  \/ \E i \in 1..Len(old) : new[Len(new)].id = old[i].id + 1 ]_vars

(* C14 witness: a file whose records had ids 3 and 1, in that order, has    *)
(* received a record with id 4.                                            *)
C14_Witness ==
    /\ upload_response.status = "success"
    /\ Len(Records(meals_json)) = 3
    /\ Records(meals_json)[1].id = 3
    /\ Records(meals_json)[2].id = 1
    /\ Records(meals_json)[3].id = 4

(* C15: after any sequence of uploads, overlapping ones included, the ids  *)
(* of the records in the record file are pairwise distinct and every       *)
(* upload that was answered with success still has its record in the file. *)
C15_DistinctIdsNoneLost ==
    LET records == Records(meals_json)
    IN  /\ \A i, j \in 1..Len(records) : i # j => records[i].id # records[j].id
        /\ \A id \in succeeded : \E i \in 1..Len(records) : records[i].id = id

(* An upload passed validation and then failed reading the record file,    *)
(* moving the image or writing the record file.                            *)
FailsAfterValidation ==
    /\ Answers
    /\ lastUpload'.resumed
    /\ lastUpload'.file.decodes
    /\ lastUpload'.faults.save = "ok"
    /\ \/ meals_json.exists /\ ~meals_json.parses
       \/ lastUpload'.faults.move = "fail"
       \/ lastUpload'.faults.write # "ok"

C18_AnalysisFailureKept ==
    [][ (/\ Answers
         /\ lastUpload'.resumed
         /\ lastUpload'.file.decodes
         /\ lastUpload'.faults.vision = "raise"
         /\ lastUpload'.faults.write = "ok"
         /\ ~(meals_json.exists /\ ~meals_json.parses))
        => LET old == Records(meals_json)
               new == Records(meals_json')
               failure == [error |-> "OpenAI Vision API analysis failed: quota exceeded"]
           IN  /\ upload_response'.status = "success"
               /\ upload_response'.status_code = 200
               /\ upload_response'.document_path \in uploads_dir'
               /\ uploads_dir \subseteq uploads_dir'
               /\ new = Append(old, new[Len(new)])
               /\ new[Len(new)].id \notin Ids(meals_json)
               /\ new[Len(new)].image_path = upload_response'.document_path
               /\ new[Len(new)].analysis_response = failure ]_vars

(* C18 witness: an upload with a description, whose analysis failed, has   *)
(* been answered with success and its record is the last of the file.      *)
C18_Witness ==
    /\ upload_response.status = "success"
    /\ lastUpload.faults.vision = "raise"
    /\ lastUpload.file.description = "lunch"
    /\ Records(meals_json) # << >>
    /\ Last(Records(meals_json)).description = "lunch"
    /\ Last(Records(meals_json)).analysis_response.error # ""
    /\ Last(Records(meals_json)).image_path \in uploads_dir

====
